---- MODULE Spec2Model ----
(***************************************************************************)
(* A model of the job-process orchestration core of aiida_core:            *)
(*   - aiida/work/job_processes.py: TransportTask and its three concrete   *)
(*     tasks, the Waiting state of a JobProcess, JobProcess.run and        *)
(*     JobProcess.retrieved;                                               *)
(*   - the transport queue, the persistence area and the process registry  *)
(*     that those use.                                                     *)
(* The event loop is single threaded: every action below is one callback   *)
(* of the loop, run to completion.  The only call that is given two steps  *)
(* is TransportTask.execute, so that "being inside execute" is a state.    *)
(***************************************************************************)
EXTENDS Integers, Sequences, FiniteSets, TLC

\* ------------------------------------------------------------------ bounds
NumProcs == 2
NumKeys == 2
MaxPolls == 1
MaxCrashes == 1
MaxRuns == 2
MinInput == 3
MaxInput == 5
MaxSites == 2
MaxStructures == 2
MaxSubmits == 3
MaxLoadCalls == 5
MaxCancels == 2

Procs == 1..NumProcs
Keys == 1..NumKeys

\* ------------------------------------------------------- program constants
SUBMIT_COMMAND == "submit"
UPDATE_SCHEDULER_COMMAND == "update_scheduler"
RETRIEVE_COMMAND == "retrieve"
Commands == {SUBMIT_COMMAND, UPDATE_SCHEDULER_COMMAND, RETRIEVE_COMMAND}

\* processes.ProcessState
ProcessState == {"CREATED", "RUNNING", "WAITING", "FINISHED", "FAILED", "CANCELLED"}
\* pstate of a process that the caller has not created
NotCreated == "none"
Terminal == {"FINISHED", "FAILED", "CANCELLED"}

\* scheduler answers to getJobs for one job id: no entry, or an entry with a
\* job state; "error" is getJobs raising
JobStates == {"QUEUED", "RUNNING", "DONE"}
SchedulerAnswers == {"absent", "error"} \cup JobStates

NoTask == [st |-> "none", val |-> "none"]

VARIABLES
    \* the process (plumpy state machine)
    pstate,          \* the state of the process's state machine
    data,            \* Waiting.data: the command of the latest Waiting state
    run_fn,          \* what the RUNNING state runs: "run" or "retrieved"
    failure,         \* the exception the FAILED state carries
    outputs,         \* TRUE once the process's outputs are attached
    \* the latest Waiting state instance and its action_command coroutine
    ac,              \* "none" | "scheduled" (call_soon pending) | "awaiting" (at its yield)
    _task,           \* Waiting._task is not None
    _cancelling_future,  \* "none" | "pending" | "true" | "false"
    \* the TransportTask (a plumpy.Future) the coroutine created
    task,            \* [st: none|pending|result|exception|cancelled, val]
    resolutions,     \* how many times the task's future was resolved
    executed,        \* TRUE once execute(transport) was invoked for the task
    \* the transport queue
    queue,           \* per authinfo, the callbacks waiting for a transport
    holder,          \* per authinfo, the task whose callback holds the transport (0: none)
    inExecute,       \* the tasks that are inside execute(transport)
    \* the durable record (calc node) and the remote side
    authinfo,        \* the (computer, user) key of the process's calc node
    calcState,       \* the calc node's state
    submitCount,     \* how many times the job was submitted remotely
    schedulerState,  \* the calc node's scheduler state
    lastJobinfo,     \* the calc node's last job info
    detailedJobInfo, \* the calc node's detailed job info
    polls,           \* scheduler queries answered "not done" so far
    \* persistence
    checkpoint,      \* the saved command of the process's Waiting state, or "none"
    crashes,         \* engine restarts so far
    \* history
    commands,        \* the waiting commands entered, in order, then "retrieved"
    ref,             \* where a run that is never reloaded is after the same answers
    cancelPhase,     \* where the process was when cancel() was first called on it
    unresolved,      \* the futures cancel() has returned that are not resolved yet
    task_cancels,    \* the calls of self._task.cancel() made by the Waiting state
    cancel_calls,    \* the calls of cancel() answered with the future now pending
    reloadedFrom,    \* the command the process was last reloaded with, or "none"
    firstTaskAfterLoad, \* the kind of the first task created after the last reload
    \* the process registry and the calls of the registry test
    wf_stack,        \* ProcessStack.stack(): the pids of the active processes
    frames,          \* the calls in progress, outermost first
    nextPid,         \* the pid the next process gets
    runs,            \* top-level runs started so far
    completed,       \* how the top-level runs that completed ended
    nextPk,          \* the pk the next node stored in the database gets
    registered,      \* the pid and the node pk of every process registered so far
    seen_pk,         \* per call in progress, the current_calc_node.pk its body read
    \* the work chains of examples/work/workchain.py
    wc_cls,          \* the class of the work chain that is run
    wc_inputs,       \* its inputs a, b and c
    wc_state,        \* the state of its process
    wc_step,         \* the position of the next step in its outline
    wc_ctx,          \* self.ctx.sum: the set of the value stored, empty if none
    wc_outputs,      \* by label, the set of the value attached, empty if none
    \* the calculation of SubmissionTest.test_submission
    the_calc,        \* "none", or "created" once add_calculation has stored it
    sites,           \* the number of Site objects appended to the Sites object
    struct_django,   \* the number of structures stored by add_structure
    instructures,    \* the number of structures attached to the calculation
    submit_calls,    \* the calls of the_calc.submit() so far
    submitted,       \* the calculation has been submitted
    raised,          \* what the last call of submit() raised, or "none"
    \* aiida.backends.settings and the calls of load_dbenv
    LOAD_DBENV_CALLED, \* settings.LOAD_DBENV_CALLED
    AIIDADB_PROFILE, \* settings.AIIDADB_PROFILE, "none" for None
    BACKEND,         \* settings.BACKEND, "none" for None
    load_calls,      \* the calls of load_dbenv so far
    profile_loads,   \* the calls of load_profile so far
    backend_loads,   \* the calls of a backend's load_dbenv so far
    dbenv_loaded,    \* a call of load_dbenv has returned without raising
    load_raised      \* what the last call of load_dbenv raised, or "none"

procVars == <<pstate, data, run_fn, failure, outputs>>
waitVars == <<ac, _task, _cancelling_future>>
taskVars == <<task, resolutions, executed>>
queueVars == <<queue, holder, inExecute>>
calcVars == <<authinfo, calcState, submitCount, schedulerState, lastJobinfo, detailedJobInfo, polls>>
persistVars == <<checkpoint, crashes>>
cancelGhosts == <<unresolved, task_cancels, cancel_calls>>
histVars == <<commands, ref, cancelPhase, cancelGhosts, reloadedFrom, firstTaskAfterLoad>>
jobVars == <<procVars, waitVars, taskVars, queueVars, calcVars, persistVars, histVars>>

regVars == <<wf_stack, frames, nextPid, runs, completed, nextPk, registered, seen_pk>>
wcVars == <<wc_cls, wc_inputs, wc_state, wc_step, wc_ctx, wc_outputs>>
subVars == <<the_calc, sites, struct_django, instructures, submit_calls, submitted, raised>>
envVars == <<LOAD_DBENV_CALLED, AIIDADB_PROFILE, BACKEND, load_calls, profile_loads,
             backend_loads, dbenv_loaded, load_raised>>
otherVars == <<regVars, wcVars, subVars, envVars>>
notRegVars == <<jobVars, wcVars, subVars, envVars>>
notWcVars == <<jobVars, regVars, subVars, envVars>>
notSubVars == <<jobVars, regVars, wcVars, envVars>>
notEnvVars == <<jobVars, regVars, wcVars, subVars>>

vars == <<jobVars, otherVars>>

\* The loop is idle: no callback of the transport queue is in progress.
LoopIdle == \A k \in Keys : holder[k] = 0

InitEngine ==
    /\ data = [p \in Procs |-> "none"]
    /\ run_fn = [p \in Procs |-> "run"]
    /\ failure = [p \in Procs |-> "none"]
    /\ outputs = [p \in Procs |-> FALSE]
    /\ ac = [p \in Procs |-> "none"]
    /\ _task = [p \in Procs |-> FALSE]
    /\ _cancelling_future = [p \in Procs |-> "none"]
    /\ task = [p \in Procs |-> NoTask]
    /\ resolutions = [p \in Procs |-> 0]
    /\ executed = [p \in Procs |-> FALSE]
    /\ queue = [k \in Keys |-> <<>>]
    /\ holder = [k \in Keys |-> 0]
    /\ inExecute = {}
    /\ authinfo \in {f \in [Procs -> Keys] : f[1] = 1}
    /\ submitCount = [p \in Procs |-> 0]
    /\ schedulerState = [p \in Procs |-> "none"]
    /\ lastJobinfo = [p \in Procs |-> "none"]
    /\ detailedJobInfo = [p \in Procs |-> "none"]
    /\ polls = [p \in Procs |-> 0]
    /\ checkpoint = [p \in Procs |-> "none"]
    /\ crashes = 0
    /\ commands = [p \in Procs |-> <<>>]
    /\ ref = [p \in Procs |-> "none"]
    /\ cancelPhase = [p \in Procs |-> "none"]
    /\ unresolved = [p \in Procs |-> 0]
    /\ task_cancels = [p \in Procs |-> 0]
    /\ cancel_calls = [p \in Procs |-> 0]
    /\ reloadedFrom = [p \in Procs |-> "none"]
    /\ firstTaskAfterLoad = [p \in Procs |-> "none"]
    /\ wf_stack = <<>>
    /\ frames = <<>>
    /\ nextPid = 1
    /\ runs = 0
    /\ completed = {}
    /\ nextPk = 1
    /\ registered = <<>>
    /\ seen_pk = <<>>

\* The values of the work chain's variables.
NoValue == {}
InputValues == MinInput..MaxInput
WorkChains == {"SumWorkChain", "ProductWorkChain", "SumProductWorkChain"}
NoOutputs == [sum |-> NoValue, product |-> NoValue, sumproduct |-> NoValue]

\* No work chain is run.
NoWorkChain ==
    /\ wc_cls = "none"
    /\ wc_inputs = <<>>
    /\ wc_state = NotCreated
    /\ wc_step = 0
    /\ wc_ctx = NoValue
    /\ wc_outputs = NoOutputs

\* No calculation of the submission test exists.
NoCalculation ==
    /\ the_calc = "none"
    /\ sites = 0
    /\ struct_django = 0
    /\ instructures = 0
    /\ submit_calls = 0
    /\ submitted = FALSE
    /\ raised = "none"

\* aiida.backends.settings as imported: load_dbenv has not been called.
InitSettings ==
    /\ LOAD_DBENV_CALLED = FALSE
    /\ AIIDADB_PROFILE = "none"
    /\ BACKEND = "none"
    /\ load_calls = 0
    /\ profile_loads = 0
    /\ backend_loads = 0
    /\ dbenv_loaded = FALSE
    /\ load_raised = "none"

InitState == InitEngine /\ NoWorkChain /\ NoCalculation /\ InitSettings

\* The record of every process is new.
InitRest == calcState = [p \in Procs |-> "NEW"] /\ InitState

\* Every process has been created.
Init == pstate = [p \in Procs |-> "CREATED"] /\ InitRest

\* One process has been created.
InitOne == pstate = [p \in Procs |-> IF p = 1 THEN "CREATED" ELSE NotCreated] /\ InitRest


\* ------------------------------------------------- plumpy.Future (library)
Done(t) == t.st \in {"result", "exception", "cancelled"}

\* plumpy.Future.cancel(): a future that is done stays as it is; otherwise it
\* is marked cancelled and done.
Future_cancel(t) == IF Done(t) THEN t ELSE [st |-> "cancelled", val |-> "none"]

\* ---------------------------------------------------------- the process
\* plumpy starts the process: CREATED -> RUNNING, to run JobProcess.run.
Start(p) ==
    /\ LoopIdle
    /\ pstate[p] = "CREATED"
    /\ pstate' = [pstate EXCEPT ![p] = "RUNNING"]
    /\ run_fn' = [run_fn EXCEPT ![p] = "run"]
    /\ UNCHANGED <<data, failure, outputs, waitVars, taskVars, queueVars, calcVars,
                   persistVars, histVars>>
    /\ UNCHANGED otherVars

\* Waiting.__init__ and Waiting.enter of the state entered with command c.
Waiting_enter(p, c) ==
    /\ pstate' = [pstate EXCEPT ![p] = "WAITING"]
    /\ data' = [data EXCEPT ![p] = c]
    /\ _cancelling_future' = [_cancelling_future EXCEPT ![p] = "none"]
    /\ ac' = [ac EXCEPT ![p] = "scheduled"]
    /\ commands' = [commands EXCEPT ![p] = Append(@, c)]

\* JobProcess.run: calc.submit() puts the record in TOSUBMIT, and the process
\* waits with the submit command.
run(p) ==
    /\ LoopIdle
    /\ pstate[p] = "RUNNING" /\ run_fn[p] = "run"
    /\ calcState' = [calcState EXCEPT ![p] = "TOSUBMIT"]
    /\ Waiting_enter(p, SUBMIT_COMMAND)
    /\ _task' = [_task EXCEPT ![p] = FALSE]
    /\ ref' = [ref EXCEPT ![p] = SUBMIT_COMMAND]
    /\ UNCHANGED <<run_fn, failure, outputs, taskVars, queueVars, authinfo, submitCount,
                   schedulerState, lastJobinfo, detailedJobInfo, polls, persistVars,
                   cancelPhase, cancelGhosts, reloadedFrom, firstTaskAfterLoad>>
    /\ UNCHANGED otherVars

\* ------------------------------------------------------ the transport queue
\* The queue if a request for one key made it forget the requests that wait
\* for the other keys.
call_me_with_transport_one_key(k, p) ==
    queue' = [j \in Keys |-> IF j = k THEN Append(queue[j], p) ELSE <<>>]

\* TransportQueue.call_me_with_transport(authinfo, callback): the callback of
\* task p waits for a transport of key k.
call_me_with_transport(k, p) == queue' = [queue EXCEPT ![k] = Append(@, p)]

\* TransportTask.__init__, called by action_command for the state's command.
TransportTask_init(p) ==
    /\ task' = [task EXCEPT ![p] = [st |-> "pending", val |-> "none"]]
    /\ resolutions' = [resolutions EXCEPT ![p] = 0]
    /\ executed' = [executed EXCEPT ![p] = FALSE]
    /\ call_me_with_transport(authinfo[p], p)

\* Waiting.action_command, from the call_soon callback to its yield: the task
\* of the command is created and awaited.  Nothing here looks at the state the
\* process is in.
action_command(p) ==
    /\ LoopIdle
    /\ ac[p] = "scheduled"
    /\ data[p] \in Commands
    /\ TransportTask_init(p)
    /\ _task' = [_task EXCEPT ![p] = TRUE]
    /\ ac' = [ac EXCEPT ![p] = "awaiting"]
    /\ firstTaskAfterLoad' = [firstTaskAfterLoad EXCEPT ![p] =
            IF reloadedFrom[p] # "none" /\ @ = "none" THEN data[p] ELSE @]
    /\ UNCHANGED <<procVars, _cancelling_future, holder, inExecute, calcVars, persistVars,
                   commands, ref, cancelPhase, cancelGhosts, reloadedFrom>>
    /\ UNCHANGED otherVars

\* _execute if it started execute and returned to the queue without waiting
\* for it to return.
_execute_detached(p) ==
    IF task[p].st = "cancelled"
    THEN UNCHANGED <<holder, inExecute, executed>>
    ELSE /\ inExecute' = inExecute \cup {p}
         /\ executed' = [executed EXCEPT ![p] = TRUE]
         /\ UNCHANGED holder

\* _execute without its test of cancelled().
_execute_unchecked(p) ==
    /\ inExecute' = inExecute \cup {p}
    /\ holder' = [holder EXCEPT ![authinfo[p]] = p]
    /\ executed' = [executed EXCEPT ![p] = TRUE]

\* TransportTask._execute, up to the call of execute: a cancelled task does
\* nothing; otherwise execute(transport) is entered, and the callback (and the
\* loop) stays in it until it returns.
_execute(p) ==
    IF task[p].st = "cancelled"
    THEN UNCHANGED <<holder, inExecute, executed>>
    ELSE /\ inExecute' = inExecute \cup {p}
         /\ holder' = [holder EXCEPT ![authinfo[p]] = p]
         /\ executed' = [executed EXCEPT ![p] = TRUE]

\* The queue calls the next callback waiting for key k with the transport.
TransportQueue_grant(k) ==
    /\ LoopIdle
    /\ queue[k] # <<>>
    /\ queue' = [queue EXCEPT ![k] = Tail(@)]
    /\ _execute(Head(queue[k]))
    /\ UNCHANGED <<procVars, waitVars, task, resolutions, calcVars, persistVars, histVars>>
    /\ UNCHANGED otherVars

\* _execute without its except clause: an exception of execute is not set on
\* the task.
_execute_return_drop(p, kind, val) ==
    /\ task' = [task EXCEPT ![p] =
            IF Done(@) \/ kind = "exception" THEN @ ELSE [st |-> kind, val |-> val]]
    /\ resolutions' = [resolutions EXCEPT ![p] = IF kind = "exception" THEN @ ELSE @ + 1]
    /\ inExecute' = inExecute \ {p}
    /\ holder' = [k \in Keys |-> IF holder[k] = p THEN 0 ELSE holder[k]]
    /\ UNCHANGED <<executed, queue>>

\* TransportTask._execute, after execute: set_result or set_exc_info, and the
\* callback returns the transport.  plumpy's set_result raises
\* InvalidStateError on a future that is done, which line 53 catches, and
\* set_exc_info then sets the exception without a check.
_execute_return(p, kind, val) ==
    /\ task' = [task EXCEPT ![p] = IF Done(@) THEN @ ELSE [st |-> kind, val |-> val]]
    /\ resolutions' = [resolutions EXCEPT ![p] = @ + 1]
    /\ inExecute' = inExecute \ {p}
    /\ holder' = [k \in Keys |-> IF holder[k] = p THEN 0 ELSE holder[k]]
    /\ UNCHANGED <<executed, queue>>

\* The run of a JobProcess that is never reloaded, as a function of the
\* answers it gets: r is the step it is at, and the result the step it is at
\* after the answer; "undefined" when no such run gets this answer at r.
RefStep(r, answer) ==
    CASE r = SUBMIT_COMMAND /\ answer = "submitted" -> UPDATE_SCHEDULER_COMMAND
      [] r = SUBMIT_COMMAND /\ answer = "SubmitError" -> "FAILED"
      [] r = UPDATE_SCHEDULER_COMMAND /\ answer \in {"QUEUED", "RUNNING"} -> UPDATE_SCHEDULER_COMMAND
      [] r = UPDATE_SCHEDULER_COMMAND /\ answer \in {"DONE", "absent"} -> RETRIEVE_COMMAND
      [] r = UPDATE_SCHEDULER_COMMAND /\ answer = "error" -> "FAILED"
      [] r = RETRIEVE_COMMAND /\ answer = "folder" -> "retrieved"
      [] r = RETRIEVE_COMMAND /\ answer = "RetrieveError" -> "FAILED"
      [] r = "retrieved" /\ answer = "parsed" -> "FINISHED"
      [] r = "retrieved" /\ answer = "ParsingError" -> "FAILED"
      [] OTHER -> "undefined"

Observe(p, answer) == ref' = [ref EXCEPT ![p] = RefStep(@, answer)]

\* SubmitJob.execute: execmanager.submit_calc submits the job and records it.
SubmitJob_execute(p) ==
    /\ p \in inExecute
    /\ data[p] = SUBMIT_COMMAND
    /\ \E ok \in BOOLEAN :
        IF ok
        THEN /\ submitCount' = [submitCount EXCEPT ![p] = @ + 1]
             /\ calcState' = [calcState EXCEPT ![p] = "WITHSCHEDULER"]
             /\ _execute_return(p, "result", "job_id")
             /\ Observe(p, "submitted")
        ELSE /\ UNCHANGED <<submitCount, calcState>>
             /\ _execute_return(p, "exception", "SubmitError")
             /\ Observe(p, "SubmitError")
    /\ UNCHANGED <<procVars, waitVars, authinfo, schedulerState, lastJobinfo,
                   detailedJobInfo, polls, persistVars, commands, cancelPhase, cancelGhosts,
                   reloadedFrom, firstTaskAfterLoad>>
    /\ UNCHANGED otherVars

\* job_done if a job the scheduler does not list were taken to be still there.
job_done_found_only(answer) == answer = "DONE"

\* job_done in UpdateSchedulerState.execute: the scheduler has no entry for
\* the job, or its entry is in state DONE.
job_done(answer) == answer \in {"absent", "DONE"}

\* UpdateSchedulerState.execute without its except NotImplementedError clause.
UpdateSchedulerState_execute_raising(p) ==
    /\ p \in inExecute
    /\ data[p] = UPDATE_SCHEDULER_COMMAND
    /\ \E answer \in SchedulerAnswers :
        LET changed == answer \in JobStates /\ lastJobinfo[p] # "none"
                        /\ answer # lastJobinfo[p]
        IN  /\ (answer \in {"QUEUED", "RUNNING"}) => polls[p] < MaxPolls
            /\ Observe(p, answer)
            /\ IF answer = "error"
               THEN /\ _execute_return(p, "exception", "SchedulerError")
                    /\ UNCHANGED <<schedulerState, lastJobinfo, detailedJobInfo, calcState, polls>>
               ELSE /\ schedulerState' = [schedulerState EXCEPT ![p] =
                            IF answer = "absent" THEN "DONE"
                            ELSE IF changed THEN answer ELSE @]
                    /\ lastJobinfo' = [lastJobinfo EXCEPT ![p] = IF changed THEN answer ELSE @]
                    /\ polls' = [polls EXCEPT ![p] = IF job_done(answer) THEN @ ELSE @ + 1]
                    /\ IF job_done(answer)
                       THEN \E detailed \in {"text", "NotImplementedError"} :
                            IF detailed = "NotImplementedError"
                            THEN /\ UNCHANGED <<detailedJobInfo, calcState>>
                                 /\ _execute_return(p, "exception", "NotImplementedError")
                            ELSE /\ detailedJobInfo' = [detailedJobInfo EXCEPT ![p] = detailed]
                                 /\ calcState' = [calcState EXCEPT ![p] = "COMPUTED"]
                                 /\ _execute_return(p, "result", "job_done")
                       ELSE /\ UNCHANGED <<detailedJobInfo, calcState>>
                            /\ _execute_return(p, "result", "job_not_done")
    /\ UNCHANGED <<procVars, waitVars, authinfo, submitCount, persistVars, commands,
                   cancelPhase, cancelGhosts, reloadedFrom, firstTaskAfterLoad>>
    /\ UNCHANGED otherVars

\* UpdateSchedulerState.execute for the scheduler's answer and for what
\* get_detailed_jobinfo does ("text", or "NotImplementedError").
UpdateSchedulerState_execute(p) ==
    /\ p \in inExecute
    /\ data[p] = UPDATE_SCHEDULER_COMMAND
    /\ \E answer \in SchedulerAnswers :
        LET changed == answer \in JobStates /\ lastJobinfo[p] # "none"
                        /\ answer # lastJobinfo[p]
        IN  /\ (answer \in {"QUEUED", "RUNNING"}) => polls[p] < MaxPolls
            /\ Observe(p, answer)
            /\ IF answer = "error"
               THEN /\ _execute_return(p, "exception", "SchedulerError")
                    /\ UNCHANGED <<schedulerState, lastJobinfo, detailedJobInfo, calcState, polls>>
               ELSE /\ schedulerState' = [schedulerState EXCEPT ![p] =
                            IF answer = "absent" THEN "DONE"
                            ELSE IF changed THEN answer ELSE @]
                    /\ lastJobinfo' = [lastJobinfo EXCEPT ![p] = IF changed THEN answer ELSE @]
                    /\ polls' = [polls EXCEPT ![p] = IF job_done(answer) THEN @ ELSE @ + 1]
                    /\ IF job_done(answer)
                       THEN \E detailed \in {"text", "NotImplementedError"} :
                            /\ detailedJobInfo' = [detailedJobInfo EXCEPT ![p] =
                                    IF detailed = "NotImplementedError" THEN "placeholder" ELSE detailed]
                            /\ calcState' = [calcState EXCEPT ![p] = "COMPUTED"]
                            /\ _execute_return(p, "result", "job_done")
                       ELSE /\ UNCHANGED <<detailedJobInfo, calcState>>
                            /\ _execute_return(p, "result", "job_not_done")
    /\ UNCHANGED <<procVars, waitVars, authinfo, submitCount, persistVars, commands,
                   cancelPhase, cancelGhosts, reloadedFrom, firstTaskAfterLoad>>
    /\ UNCHANGED otherVars

\* RetrieveJob.execute: execmanager.retrieve_all returns the temporary folder.
RetrieveJob_execute(p) ==
    /\ p \in inExecute
    /\ data[p] = RETRIEVE_COMMAND
    /\ \E ok \in BOOLEAN :
        IF ok
        THEN _execute_return(p, "result", "folder") /\ Observe(p, "folder")
        ELSE _execute_return(p, "exception", "RetrieveError") /\ Observe(p, "RetrieveError")
    /\ UNCHANGED <<procVars, waitVars, calcVars, persistVars, commands, cancelPhase, cancelGhosts,
                   reloadedFrom, firstTaskAfterLoad>>
    /\ UNCHANGED otherVars


\* ------------------------------------------------------ the Waiting state
\* Waiting.exit if it left the cancelling future alone.
Waiting_exit_silent(cf) == cf

\* Waiting.exit: a cancelling future that is not done is told the cancel failed.
Waiting_exit(cf) == IF cf = "pending" THEN "false" ELSE cf

\* Lines 171-173, after transition_to(CANCELLED) has run the exit hook:
\* set_result(True) on the cancelling future, which raises InvalidStateError
\* (and leaves it as it is) if it is done.
SetCancelled(cf) == IF cf = "pending" THEN "true" ELSE cf

\* action_command if the submit step went on to retrieve without a poll.
Outcome_skip_poll(t, c) ==
    CASE t.st = "cancelled" -> [state |-> "CANCELLED", arg |-> "none"]
      [] t.st = "exception" -> [state |-> "FAILED", arg |-> t.val]
      [] t.st = "result" /\ c = SUBMIT_COMMAND ->
            [state |-> "WAITING", arg |-> RETRIEVE_COMMAND]
      [] t.st = "result" /\ c = UPDATE_SCHEDULER_COMMAND ->
            [state |-> "WAITING",
             arg |-> IF t.val = "job_done" THEN RETRIEVE_COMMAND ELSE UPDATE_SCHEDULER_COMMAND]
      [] t.st = "result" /\ c = RETRIEVE_COMMAND -> [state |-> "RUNNING", arg |-> "retrieved"]

\* action_command if it failed the process with an exception of its own
\* instead of the one the task raised.
Outcome_generic_failure(t, c) ==
    CASE t.st = "cancelled" -> [state |-> "CANCELLED", arg |-> "none"]
      [] t.st = "exception" -> [state |-> "FAILED", arg |-> "RuntimeError"]
      [] t.st = "result" /\ c = SUBMIT_COMMAND ->
            [state |-> "WAITING", arg |-> UPDATE_SCHEDULER_COMMAND]
      [] t.st = "result" /\ c = UPDATE_SCHEDULER_COMMAND ->
            [state |-> "WAITING",
             arg |-> IF t.val = "job_done" THEN RETRIEVE_COMMAND ELSE UPDATE_SCHEDULER_COMMAND]
      [] t.st = "result" /\ c = RETRIEVE_COMMAND -> [state |-> "RUNNING", arg |-> "retrieved"]

\* action_command if it went on to retrieve after every poll, done or not.
Outcome_never_repoll(t, c) ==
    CASE t.st = "cancelled" -> [state |-> "CANCELLED", arg |-> "none"]
      [] t.st = "exception" -> [state |-> "FAILED", arg |-> t.val]
      [] t.st = "result" /\ c = SUBMIT_COMMAND ->
            [state |-> "WAITING", arg |-> UPDATE_SCHEDULER_COMMAND]
      [] t.st = "result" /\ c = UPDATE_SCHEDULER_COMMAND ->
            [state |-> "WAITING", arg |-> RETRIEVE_COMMAND]
      [] t.st = "result" /\ c = RETRIEVE_COMMAND -> [state |-> "RUNNING", arg |-> "retrieved"]

\* What action_command does with its task's outcome (lines 146-176): the
\* state, the command or run function, and the exception it transitions with.
Outcome(t, c) ==
    CASE t.st = "cancelled" -> [state |-> "CANCELLED", arg |-> "none"]
      [] t.st = "exception" -> [state |-> "FAILED", arg |-> t.val]
      [] t.st = "result" /\ c = SUBMIT_COMMAND ->
            [state |-> "WAITING", arg |-> UPDATE_SCHEDULER_COMMAND]
      [] t.st = "result" /\ c = UPDATE_SCHEDULER_COMMAND ->
            [state |-> "WAITING",
             arg |-> IF t.val = "job_done" THEN RETRIEVE_COMMAND ELSE UPDATE_SCHEDULER_COMMAND]
      [] t.st = "result" /\ c = RETRIEVE_COMMAND -> [state |-> "RUNNING", arg |-> "retrieved"]

\* transition_to if it let a process leave a terminal state.
transition_allowed_always(from) == TRUE

\* Whether transition_to, called by action_command on a process in state
\* from, makes the transition: plumpy raises instead when from is terminal.
transition_allowed(from) == from \notin Terminal

\* The Waiting state of p is left and its cancelling future, if one was
\* pending, is now cf: a future that got resolved is no longer counted, and no
\* call of cancel() is waiting for an answer.
Exited(p, cf) ==
    /\ unresolved' = [unresolved EXCEPT ![p] =
            IF _cancelling_future[p] = "pending" /\ cf # "pending" THEN @ - 1 ELSE @]
    /\ cancel_calls' = [cancel_calls EXCEPT ![p] = 0]

\* Waiting.action_command resumed at its yield with the task done, to its end.
\* plumpy refuses a transition out of a terminal state (the state stays as it
\* is); otherwise the transition runs Waiting.exit and enters the next state.
action_command_resume(p) ==
    /\ LoopIdle
    /\ ac[p] = "awaiting"
    /\ Done(task[p])
    /\ LET o == Outcome(task[p], data[p])
       IN  IF ~transition_allowed(pstate[p])
           THEN /\ ac' = [ac EXCEPT ![p] = "none"]
                /\ UNCHANGED <<procVars, _cancelling_future, commands, cancelGhosts>>
           ELSE CASE o.state = "WAITING" ->
                        /\ Waiting_enter(p, o.arg)
                        /\ Exited(p, Waiting_exit(_cancelling_future[p]))
                        /\ task_cancels' = [task_cancels EXCEPT ![p] = 0]
                        /\ UNCHANGED <<run_fn, failure, outputs>>
                  [] o.state = "RUNNING" ->
                        /\ pstate' = [pstate EXCEPT ![p] = "RUNNING"]
                        /\ run_fn' = [run_fn EXCEPT ![p] = o.arg]
                        /\ commands' = [commands EXCEPT ![p] = Append(@, o.arg)]
                        /\ _cancelling_future' = [_cancelling_future EXCEPT ![p] = Waiting_exit(@)]
                        /\ Exited(p, Waiting_exit(_cancelling_future[p]))
                        /\ ac' = [ac EXCEPT ![p] = "none"]
                        /\ UNCHANGED <<data, failure, outputs, task_cancels>>
                  [] o.state = "FAILED" ->
                        /\ pstate' = [pstate EXCEPT ![p] = "FAILED"]
                        /\ failure' = [failure EXCEPT ![p] = o.arg]
                        /\ _cancelling_future' = [_cancelling_future EXCEPT ![p] = Waiting_exit(@)]
                        /\ Exited(p, Waiting_exit(_cancelling_future[p]))
                        /\ ac' = [ac EXCEPT ![p] = "none"]
                        /\ UNCHANGED <<data, run_fn, outputs, commands, task_cancels>>
                  [] o.state = "CANCELLED" ->
                        /\ pstate' = [pstate EXCEPT ![p] = "CANCELLED"]
                        /\ _cancelling_future' = [_cancelling_future EXCEPT ![p] =
                                SetCancelled(Waiting_exit(@))]
                        /\ Exited(p, SetCancelled(Waiting_exit(_cancelling_future[p])))
                        /\ ac' = [ac EXCEPT ![p] = "none"]
                        /\ UNCHANGED <<data, run_fn, failure, outputs, commands, task_cancels>>
    /\ _task' = [_task EXCEPT ![p] = FALSE]
    /\ UNCHANGED <<taskVars, queueVars, calcVars, persistVars, ref, cancelPhase,
                   reloadedFrom, firstTaskAfterLoad>>
    /\ UNCHANGED otherVars

\* Where the process is when cancel() is called on it: in the submit step
\* with no task yet, with its task unresolved or with its task resolved, or in
\* a later step.
PhaseOf(p) ==
    IF data[p] # SUBMIT_COMMAND THEN "later"
    ELSE IF ~_task[p] THEN "no_task"
    ELSE IF Done(task[p]) THEN "task_done" ELSE "task_pending"

\* Waiting.cancel without its call of self._task.cancel().
cancel_without_task_cancel(p) ==
    /\ LoopIdle
    /\ pstate[p] = "WAITING"
    /\ IF _cancelling_future[p] # "none"
       THEN /\ UNCHANGED <<pstate, _cancelling_future, cancelPhase, unresolved, task_cancels>>
            /\ cancel_calls' = [cancel_calls EXCEPT ![p] = IF @ < MaxCancels THEN @ + 1 ELSE @]
       ELSE /\ cancelPhase' = [cancelPhase EXCEPT ![p] = IF @ = "none" THEN PhaseOf(p) ELSE @]
            /\ IF _task[p]
               THEN /\ _cancelling_future' = [_cancelling_future EXCEPT ![p] = "pending"]
                    /\ unresolved' = [unresolved EXCEPT ![p] = @ + 1]
                    /\ cancel_calls' = [cancel_calls EXCEPT ![p] = 1]
                    /\ UNCHANGED <<pstate, task_cancels>>
               ELSE /\ pstate' = [pstate EXCEPT ![p] = "CANCELLED"]
                    /\ _cancelling_future' = [_cancelling_future EXCEPT ![p] = Waiting_exit(@)]
                    /\ UNCHANGED cancelGhosts
    /\ UNCHANGED <<data, run_fn, failure, outputs, ac, _task, taskVars, queueVars, calcVars,
                   persistVars, commands, ref, reloadedFrom, firstTaskAfterLoad>>
    /\ UNCHANGED otherVars

\* Waiting.cancel without its test of a cancelling future that exists already:
\* every call that finds a task makes a future and cancels the task.
cancel_each_time(p) ==
    /\ LoopIdle
    /\ pstate[p] = "WAITING"
    /\ cancel_calls[p] < MaxCancels
    /\ cancelPhase' = [cancelPhase EXCEPT ![p] = IF @ = "none" THEN PhaseOf(p) ELSE @]
    /\ IF _task[p]
       THEN /\ _cancelling_future' = [_cancelling_future EXCEPT ![p] = "pending"]
            /\ task' = [task EXCEPT ![p] = Future_cancel(@)]
            /\ resolutions' = [resolutions EXCEPT ![p] = IF Done(task[p]) THEN @ ELSE @ + 1]
            /\ unresolved' = [unresolved EXCEPT ![p] = @ + 1]
            /\ task_cancels' = [task_cancels EXCEPT ![p] = @ + 1]
            /\ cancel_calls' = [cancel_calls EXCEPT ![p] = @ + 1]
            /\ UNCHANGED pstate
       ELSE /\ pstate' = [pstate EXCEPT ![p] = "CANCELLED"]
            /\ _cancelling_future' = [_cancelling_future EXCEPT ![p] = Waiting_exit(@)]
            /\ UNCHANGED <<task, resolutions, cancelGhosts>>
    /\ UNCHANGED <<data, run_fn, failure, outputs, ac, _task, executed, queueVars, calcVars,
                   persistVars, commands, ref, reloadedFrom, firstTaskAfterLoad>>
    /\ UNCHANGED otherVars

\* Process.cancel() on a process in the Waiting state: Waiting.cancel.
cancel(p) ==
    /\ LoopIdle
    /\ pstate[p] = "WAITING"
    /\ IF _cancelling_future[p] # "none"
       THEN \* the future of the earlier call is returned
            /\ UNCHANGED <<pstate, _cancelling_future, task, resolutions, cancelPhase,
                           unresolved, task_cancels>>
            /\ cancel_calls' = [cancel_calls EXCEPT ![p] = IF @ < MaxCancels THEN @ + 1 ELSE @]
       ELSE /\ cancelPhase' = [cancelPhase EXCEPT ![p] = IF @ = "none" THEN PhaseOf(p) ELSE @]
            /\ IF _task[p]
               THEN /\ _cancelling_future' = [_cancelling_future EXCEPT ![p] = "pending"]
                    /\ task' = [task EXCEPT ![p] = Future_cancel(@)]
                    /\ resolutions' = [resolutions EXCEPT ![p] =
                            IF Done(task[p]) THEN @ ELSE @ + 1]
                    /\ unresolved' = [unresolved EXCEPT ![p] = @ + 1]
                    /\ task_cancels' = [task_cancels EXCEPT ![p] = @ + 1]
                    /\ cancel_calls' = [cancel_calls EXCEPT ![p] = 1]
                    /\ UNCHANGED pstate
               ELSE \* plumpy.Waiting.cancel: the process is cancelled at once
                    /\ pstate' = [pstate EXCEPT ![p] = "CANCELLED"]
                    /\ _cancelling_future' = [_cancelling_future EXCEPT ![p] = Waiting_exit(@)]
                    /\ UNCHANGED <<task, resolutions, cancelGhosts>>
    /\ UNCHANGED <<data, run_fn, failure, outputs, ac, _task, executed, queueVars, calcVars,
                   persistVars, commands, ref, reloadedFrom, firstTaskAfterLoad>>
    /\ UNCHANGED otherVars

\* JobProcess.retrieved if its except clause did not re-raise: the record is
\* marked and the process finishes as if the results had been parsed.
retrieved_swallowing(p) ==
    /\ LoopIdle
    /\ pstate[p] = "RUNNING" /\ run_fn[p] = "retrieved" /\ ~outputs[p]
    /\ \E parsed \in BOOLEAN, allowed \in BOOLEAN :
        IF parsed
        THEN /\ allowed
             /\ calcState' = [calcState EXCEPT ![p] = "FINISHED"]
             /\ Observe(p, "parsed")
        ELSE /\ calcState' = [calcState EXCEPT ![p] = IF allowed THEN "PARSINGFAILED" ELSE @]
             /\ Observe(p, "ParsingError")
    /\ outputs' = [outputs EXCEPT ![p] = TRUE]
    /\ UNCHANGED <<pstate, data, run_fn, failure, waitVars, taskVars, queueVars, authinfo, submitCount,
                   schedulerState, lastJobinfo, detailedJobInfo, polls, persistVars,
                   commands, cancelPhase, cancelGhosts, reloadedFrom, firstTaskAfterLoad>>
    /\ UNCHANGED otherVars

\* JobProcess.retrieved, run by the RUNNING state, up to its return: the
\* results are parsed and self.out attaches the outputs, the process still
\* RUNNING; if parsing raises, the record is marked PARSINGFAILED (unless
\* that is not allowed) and the exception fails the process.
retrieved(p) ==
    /\ LoopIdle
    /\ pstate[p] = "RUNNING" /\ run_fn[p] = "retrieved" /\ ~outputs[p]
    /\ \E parsed \in BOOLEAN, allowed \in BOOLEAN :
        IF parsed
        THEN /\ allowed
             /\ calcState' = [calcState EXCEPT ![p] = "FINISHED"]
             /\ outputs' = [outputs EXCEPT ![p] = TRUE]
             /\ Observe(p, "parsed")
             /\ UNCHANGED <<pstate, failure>>
        ELSE /\ calcState' = [calcState EXCEPT ![p] = IF allowed THEN "PARSINGFAILED" ELSE @]
             /\ pstate' = [pstate EXCEPT ![p] = "FAILED"]
             /\ failure' = [failure EXCEPT ![p] = "ParsingError"]
             /\ Observe(p, "ParsingError")
             /\ UNCHANGED outputs
    /\ UNCHANGED <<data, run_fn, waitVars, taskVars, queueVars, authinfo, submitCount,
                   schedulerState, lastJobinfo, detailedJobInfo, polls, persistVars,
                   commands, cancelPhase, cancelGhosts, reloadedFrom, firstTaskAfterLoad>>
    /\ UNCHANGED otherVars

\* The return of JobProcess.retrieved: the RUNNING state ends with the
\* outputs as its result and the process is FINISHED.
retrieved_return(p) ==
    /\ LoopIdle
    /\ pstate[p] = "RUNNING" /\ run_fn[p] = "retrieved" /\ outputs[p]
    /\ pstate' = [pstate EXCEPT ![p] = "FINISHED"]
    /\ UNCHANGED <<data, run_fn, failure, outputs, waitVars, taskVars, queueVars, calcVars,
                   persistVars, histVars>>
    /\ UNCHANGED otherVars

\* ------------------------------------------------------------ persistence
\* Persistence.checkpoint: the Waiting state's command is saved.
Checkpoint(p) ==
    /\ LoopIdle
    /\ pstate[p] = "WAITING"
    /\ checkpoint[p] # data[p]
    /\ checkpoint' = [checkpoint EXCEPT ![p] = data[p]]
    /\ UNCHANGED <<procVars, waitVars, taskVars, queueVars, calcVars, crashes, histVars>>
    /\ UNCHANGED otherVars

Live(p) == pstate[p] \in {"RUNNING", "WAITING"}

\* load_instance_state if the loaded state started again from the submit command.
load_instance_state_from_submit(p) ==
    [ac |-> "scheduled", task |-> FALSE, cf |-> "none", data |-> SUBMIT_COMMAND]

\* load_instance_state if it took the loaded state to have a task already.
load_instance_state_keeping_task(p) ==
    [ac |-> "scheduled", task |-> TRUE, cf |-> "none", data |-> checkpoint[p]]

\* load_instance_state without its call_soon of action_command.
load_instance_state_unarmed(p) ==
    [ac |-> "none", task |-> FALSE, cf |-> "none", data |-> checkpoint[p]]

\* Waiting.load_instance_state: the loaded state has no task and no
\* cancelling future, and its action_command is scheduled.
load_instance_state(p) == [ac |-> "scheduled", task |-> FALSE, cf |-> "none",
                           data |-> checkpoint[p]]

\* The engine stops and starts again: what was in memory (the queue, the
\* tasks, the coroutines) is gone, the records stay, and every process that
\* was running is loaded from its checkpoint.
CrashReload ==
    /\ LoopIdle
    /\ crashes < MaxCrashes
    /\ \E p \in Procs : Live(p)
    /\ \A p \in Procs : Live(p) => checkpoint[p] # "none"
    /\ crashes' = crashes + 1
    /\ pstate' = [p \in Procs |-> IF Live(p) THEN "WAITING" ELSE pstate[p]]
    /\ data' = [p \in Procs |-> IF Live(p) THEN load_instance_state(p).data ELSE data[p]]
    /\ ac' = [p \in Procs |-> IF Live(p) THEN load_instance_state(p).ac ELSE "none"]
    /\ _task' = [p \in Procs |-> IF Live(p) THEN load_instance_state(p).task ELSE FALSE]
    /\ _cancelling_future' = [p \in Procs |->
            IF Live(p) THEN load_instance_state(p).cf ELSE _cancelling_future[p]]
    /\ task' = [p \in Procs |-> NoTask]
    /\ resolutions' = [p \in Procs |-> 0]
    /\ executed' = [p \in Procs |-> FALSE]
    /\ queue' = [k \in Keys |-> <<>>]
    /\ reloadedFrom' = [p \in Procs |-> IF Live(p) THEN checkpoint[p] ELSE reloadedFrom[p]]
    /\ firstTaskAfterLoad' = [p \in Procs |-> IF Live(p) THEN "none" ELSE firstTaskAfterLoad[p]]
    /\ cancelPhase' = [p \in Procs |-> IF Live(p) THEN "none" ELSE cancelPhase[p]]
    /\ unresolved' = [p \in Procs |-> IF Live(p) THEN 0 ELSE unresolved[p]]
    /\ task_cancels' = [p \in Procs |-> IF Live(p) THEN 0 ELSE task_cancels[p]]
    /\ cancel_calls' = [p \in Procs |-> IF Live(p) THEN 0 ELSE cancel_calls[p]]
    /\ UNCHANGED <<run_fn, failure, outputs, holder, inExecute, calcVars, checkpoint,
                   commands, ref>>
    /\ UNCHANGED otherVars

\* ------------------------------------------------ ContinueJobCalculation
\* ContinueJobCalculation.ACTIVE_CALC_STATES.
ACTIVE_CALC_STATES ==
    {"TOSUBMIT", "SUBMITTING", "WITHSCHEDULER", "COMPUTED", "RETRIEVING", "PARSING"}

\* The states in which the record of a process is found when the engine
\* starts: new, active, or already finished.
RecoveredStates == {"NEW"} \cup ACTIVE_CALC_STATES \cup {"FINISHED"}

\* One ContinueJobCalculation has been created for a record found in any of
\* these states.
InitContinue ==
    /\ pstate = [p \in Procs |-> IF p = 1 THEN "CREATED" ELSE NotCreated]
    /\ calcState \in {f \in [Procs -> RecoveredStates] : \A p \in Procs : p # 1 => f[p] = "NEW"}
    /\ InitState

\* self._submit(): the process waits with the submit command.
_submit == SUBMIT_COMMAND

\* self._update_scheduler_state(job_done): the process waits with the retrieve
\* command if the job is done, with the update command otherwise.
_update_scheduler_state(done) ==
    IF done THEN RETRIEVE_COMMAND ELSE UPDATE_SCHEDULER_COMMAND

\* The process leaves run to wait with command c; the record is untouched.
Continue_wait(p, c) ==
    /\ Waiting_enter(p, c)
    /\ _task' = [_task EXCEPT ![p] = FALSE]
    /\ UNCHANGED <<run_fn, failure, outputs, taskVars, queueVars, calcVars, persistVars,
                   ref, cancelPhase, cancelGhosts, reloadedFrom, firstTaskAfterLoad>>

\* self.retrieved(True): the first statement of the try block reads
\* retrieved_temporary_folder.folder of True, which raises AttributeError
\* before parse_results is called; the except clause marks the record
\* PARSINGFAILED (unless that is not allowed) and re-raises.
retrieved_True(p) ==
    /\ \E allowed \in BOOLEAN :
        calcState' = [calcState EXCEPT ![p] = IF allowed THEN "PARSINGFAILED" ELSE @]
    /\ pstate' = [pstate EXCEPT ![p] = "FAILED"]
    /\ failure' = [failure EXCEPT ![p] = "AttributeError"]
    /\ UNCHANGED <<data, run_fn, outputs, waitVars, taskVars, queueVars, authinfo,
                   submitCount, schedulerState, lastJobinfo, detailedJobInfo, polls,
                   persistVars, histVars>>

\* ContinueJobCalculation.run: by the state of the record, the full run of
\* JobProcess, one of the sub-steps, the parsing, or nothing (run returns
\* None and the process finishes without outputs).
ContinueJobCalculation_run(p) ==
    /\ LoopIdle
    /\ pstate[p] = "RUNNING" /\ run_fn[p] = "run"
    /\ LET state == calcState[p] IN
        IF state = "NEW" THEN run(p)
        ELSE /\ IF state \in {"TOSUBMIT", "SUBMITTING"} THEN Continue_wait(p, _submit)
                ELSE IF state = "WITHSCHEDULER"
                    THEN Continue_wait(p, _update_scheduler_state(FALSE))
                ELSE IF state \in {"COMPUTED", "RETRIEVING"}
                    THEN Continue_wait(p, _update_scheduler_state(TRUE))
                ELSE IF state = "PARSING" THEN retrieved_True(p)
                ELSE /\ pstate' = [pstate EXCEPT ![p] = "FINISHED"]
                     /\ UNCHANGED <<data, run_fn, failure, outputs, waitVars, taskVars,
                                    queueVars, calcVars, persistVars, histVars>>
             /\ UNCHANGED otherVars

\* ------------------------------------------- the work chains of the example
\* spec.outline(...) in define: the steps of each class, in order.
outline(cls) ==
    CASE cls = "SumWorkChain" -> <<"sum">>
      [] cls = "ProductWorkChain" -> <<"product">>
      [] cls = "SumProductWorkChain" -> <<"sum", "product">>

\* spec.output(...) in define: the output label of each class.
output(cls) ==
    CASE cls = "SumWorkChain" -> "sum"
      [] cls = "ProductWorkChain" -> "product"
      [] cls = "SumProductWorkChain" -> "sumproduct"

\* NumericType.__add__ and __mul__ on the values of the nodes.
NumericType_add(x, y) == x + y
NumericType_mul(x, y) == x * y

\* SumWorkChain.sum if it multiplied its inputs.
SumWorkChain_sum_multiplying(inputs) == NumericType_mul(inputs.a, inputs.b)

\* SumWorkChain.sum: the value given to self.out('sum', ...).
SumWorkChain_sum(inputs) == NumericType_add(inputs.a, inputs.b)

\* ProductWorkChain.product: the value given to self.out('product', ...).
ProductWorkChain_product(inputs) == NumericType_mul(inputs.a, inputs.b)

\* SumProductWorkChain.sum: the value stored in self.ctx.sum.
SumProductWorkChain_sum(inputs) == NumericType_add(inputs.a, inputs.b)

\* SumProductWorkChain.product: the value given to self.out('sumproduct', ...).
SumProductWorkChain_product(ctx_sum, inputs) ==
    NumericType_mul(CHOOSE v \in ctx_sum : TRUE, inputs.c)

\* work.run(cls, **inputs): a work chain of one of the three classes is
\* created with Int inputs.
InitWorkChain ==
    /\ pstate = [p \in Procs |-> NotCreated]
    /\ calcState = [p \in Procs |-> "NEW"]
    /\ InitEngine
    /\ wc_cls \in WorkChains
    /\ wc_inputs \in [a : InputValues, b : InputValues, c : InputValues]
    /\ wc_state = "CREATED"
    /\ wc_step = 1
    /\ wc_ctx = NoValue
    /\ wc_outputs = NoOutputs
    /\ NoCalculation /\ InitSettings

\* The process of the work chain starts running.
WorkChain_start ==
    /\ wc_state = "CREATED"
    /\ wc_state' = "RUNNING"
    /\ UNCHANGED <<wc_cls, wc_inputs, wc_step, wc_ctx, wc_outputs>>
    /\ UNCHANGED notWcVars

\* The work chain runs the next step of its outline: the method of its class
\* with that name, which stores a value in the context or attaches an output.
WorkChain_step ==
    /\ wc_state = "RUNNING"
    /\ wc_step <= Len(outline(wc_cls))
    /\ LET name == outline(wc_cls)[wc_step] IN
        CASE wc_cls = "SumWorkChain" /\ name = "sum" ->
                /\ wc_outputs' = [wc_outputs EXCEPT !.sum = {SumWorkChain_sum(wc_inputs)}]
                /\ UNCHANGED wc_ctx
          [] wc_cls = "ProductWorkChain" /\ name = "product" ->
                /\ wc_outputs' = [wc_outputs EXCEPT !.product = {ProductWorkChain_product(wc_inputs)}]
                /\ UNCHANGED wc_ctx
          [] wc_cls = "SumProductWorkChain" /\ name = "sum" ->
                /\ wc_ctx' = {SumProductWorkChain_sum(wc_inputs)}
                /\ UNCHANGED wc_outputs
          [] wc_cls = "SumProductWorkChain" /\ name = "product" ->
                /\ wc_outputs' = [wc_outputs EXCEPT
                        !.sumproduct = {SumProductWorkChain_product(wc_ctx, wc_inputs)}]
                /\ UNCHANGED wc_ctx
    /\ wc_step' = wc_step + 1
    /\ UNCHANGED <<wc_cls, wc_inputs, wc_state>>
    /\ UNCHANGED notWcVars

\* The outline is exhausted: the process finishes with its outputs.
WorkChain_finish ==
    /\ wc_state = "RUNNING"
    /\ wc_step > Len(outline(wc_cls))
    /\ wc_state' = "FINISHED"
    /\ UNCHANGED <<wc_cls, wc_inputs, wc_step, wc_ctx, wc_outputs>>
    /\ UNCHANGED notWcVars

NextWorkChain ==
    \/ WorkChain_start
    \/ WorkChain_step
    \/ WorkChain_finish

SpecWorkChain == InitWorkChain /\ [][NextWorkChain]_vars

\* ------------------------------------- SubmissionTest.test_submission
\* The test database is empty: nothing but the engine's idle state.
InitSubmission ==
    /\ pstate = [p \in Procs |-> NotCreated]
    /\ calcState = [p \in Procs |-> "NEW"]
    /\ InitEngine /\ NoWorkChain /\ NoCalculation /\ InitSettings

\* add_calculation(...): the calculation is stored, with no structure.
add_calculation ==
    /\ the_calc = "none"
    /\ the_calc' = "created"
    /\ UNCHANGED <<sites, struct_django, instructures, submit_calls, submitted, raised>>
    /\ UNCHANGED notSubVars

\* sites.appendSite(structure.Site(...)) on the Sites object being built.
appendSite ==
    /\ sites < MaxSites
    /\ sites' = sites + 1
    /\ UNCHANGED <<the_calc, struct_django, instructures, submit_calls, submitted, raised>>
    /\ UNCHANGED notSubVars

\* add_structure(sites, ...): the Sites object, which has sites, is stored as
\* a structure.
add_structure ==
    /\ sites > 0
    /\ struct_django < MaxStructures
    /\ struct_django' = struct_django + 1
    /\ UNCHANGED <<the_calc, sites, instructures, submit_calls, submitted, raised>>
    /\ UNCHANGED notSubVars

\* the_calc.instructures.add(struct_django): a stored structure that is not
\* attached yet is attached to the calculation.
instructures_add ==
    /\ the_calc = "created"
    /\ instructures < struct_django
    /\ instructures' = instructures + 1
    /\ UNCHANGED <<the_calc, sites, struct_django, submit_calls, submitted, raised>>
    /\ UNCHANGED notSubVars

\* Calculation.submit without its validation of the inputs.
Calculation_submit_unvalidated(n) == "none"

\* The validation in Calculation.submit of a calculation with n input
\* structures: what it raises, or "none".
Calculation_submit_validate(n) == IF n = 0 THEN "ValidationError" ELSE "none"

\* the_calc.submit(): the inputs are validated, and the calculation is
\* submitted only if the validation raised nothing.
Calculation_submit ==
    /\ the_calc = "created"
    /\ ~submitted
    /\ submit_calls < MaxSubmits
    /\ submit_calls' = submit_calls + 1
    /\ raised' = Calculation_submit_validate(instructures)
    /\ submitted' = (raised' = "none")
    /\ UNCHANGED <<the_calc, sites, struct_django, instructures>>
    /\ UNCHANGED notSubVars

NextSubmission ==
    \/ add_calculation
    \/ appendSite
    \/ add_structure
    \/ instructures_add
    \/ Calculation_submit

SpecSubmission == InitSubmission /\ [][NextSubmission]_vars

\* ------------------------------------------------ aiida.backends.utils
BACKEND_SQLA == "sqlalchemy"
BACKEND_DJANGO == "django"

\* The profiles a caller may name, and the backends a profile may configure.
Profiles == {"default", "test"}
Backends == {BACKEND_SQLA, BACKEND_DJANGO, "invalid"}

\* is_dbenv_loaded().
is_dbenv_loaded == LOAD_DBENV_CALLED

\* get_current_profile(): the profile, or "none" for None.
get_current_profile == IF is_dbenv_loaded THEN AIIDADB_PROFILE ELSE "none"

InitDbenv ==
    /\ pstate = [p \in Procs |-> NotCreated]
    /\ calcState = [p \in Procs |-> "NEW"]
    /\ InitEngine /\ NoWorkChain /\ NoCalculation /\ InitSettings

\* The test at the top of load_dbenv if it let every call through.
load_dbenv_refuses_never == FALSE

\* The test at the top of load_dbenv: a call is refused if is_dbenv_loaded().
load_dbenv_refuses == is_dbenv_loaded

\* load_dbenv(profile). A refused call raises InvalidOperation. Otherwise the
\* flag is set, load_profile is called (it raises with the settings as they
\* were, or sets the profile and the backend), and by the backend its
\* load_dbenv is called (and returns or raises) or ConfigurationError is
\* raised.
load_dbenv(profile) ==
    /\ load_calls < MaxLoadCalls
    /\ load_calls' = load_calls + 1
    /\ IF load_dbenv_refuses
       THEN /\ load_raised' = "InvalidOperation"
            /\ UNCHANGED <<LOAD_DBENV_CALLED, AIIDADB_PROFILE, BACKEND, profile_loads,
                           backend_loads, dbenv_loaded>>
       ELSE /\ LOAD_DBENV_CALLED' = TRUE
            /\ profile_loads' = profile_loads + 1
            /\ \/ \* load_profile raises
                  /\ load_raised' = "load_profile"
                  /\ UNCHANGED <<AIIDADB_PROFILE, BACKEND, backend_loads, dbenv_loaded>>
               \/ \E backend \in Backends :
                  /\ AIIDADB_PROFILE' = profile
                  /\ BACKEND' = backend
                  /\ IF backend \in {BACKEND_SQLA, BACKEND_DJANGO}
                     THEN /\ backend_loads' = backend_loads + 1
                          /\ \E ok \in BOOLEAN :
                                /\ load_raised' = IF ok THEN "none" ELSE "backend_load_dbenv"
                                /\ dbenv_loaded' = (dbenv_loaded \/ ok)
                     ELSE /\ load_raised' = "ConfigurationError"
                          /\ UNCHANGED <<backend_loads, dbenv_loaded>>
    /\ UNCHANGED notEnvVars

NextDbenv == \E profile \in Profiles : load_dbenv(profile)

SpecDbenv == InitDbenv /\ [][NextDbenv]_vars

\* --------------------------------- the process registry and its test
\* The processes of the registry test and the processes each body starts, in
\* order: registry_tester calls the workfunction nested_tester and then the
\* Process RegistryTester, whose _run calls nested_tester.
Children(fn) ==
    CASE fn = "registry_tester" -> <<"nested_tester", "RegistryTester">>
      [] fn = "RegistryTester" -> <<"nested_tester">>
      [] fn = "nested_tester" -> <<>>

\* What the two tests run at top level.
TopLevel == {"RegistryTester", "registry_tester"}

\* How a body ends other than by returning.
Raises == {"failure", "cancel"}

\* A process that was created with its pid and has not started.
NewFrame(fn, pid) ==
    [fn |-> fn, pid |-> pid, pc |-> 1, st |-> "created", end |-> "none", seen |-> 0]

Top(s) == s[Len(s)]

Front(s) == SubSeq(s, 1, Len(s) - 1)

\* ProcessStack.push if it put the process under the others.
ProcessStack_push_bottom(s, pid) == <<pid>> \o s

\* ProcessStack.push: the process becomes the innermost active one.
ProcessStack_push(s, pid) == Append(s, pid)

\* ProcessStack.pop if it removed the outermost process.
ProcessStack_pop_bottom(s) == Tail(s)

\* ProcessStack.pop: the innermost active process leaves the stack.
ProcessStack_pop(s) == Front(s)

\* registry.current_pid: the pid of the innermost active process.
current_pid(s) == IF s = <<>> THEN 0 ELSE Top(s)

\* The pid of a process if the registry counted the processes itself.
ProcessRegistry_pid_counted(pk, count) == count

\* The pid the registry hands out to a process whose calc node was stored with
\* pk, as the count-th process it registers: with storage, the node's pk.
ProcessRegistry_pid(pk, count) == pk

\* The record of a process being registered.
Registration(pk, count) == [pid |-> ProcessRegistry_pid(pk, count), pk |-> pk]

\* The pk of the calc node of the registered process with this pid.
PkOf(pid) ==
    IF \E i \in 1..Len(registered) : registered[i].pid = pid
    THEN registered[CHOOSE i \in 1..Len(registered) : registered[i].pid = pid].pk
    ELSE 0

\* registry.current_calc_node.pk: the pk of the innermost active process's node.
current_calc_node_pk(s) == PkOf(current_pid(s))

\* The nodes a body stores for the values it returns: the workfunctions
\* return two Int nodes, RegistryTester._run returns nothing.
Returned(fn) == IF fn = "RegistryTester" THEN 0 ELSE 2

\* A test calls RegistryTester.run() or async(registry_tester).
run_top(fn) ==
    /\ frames = <<>>
    /\ runs < MaxRuns
    /\ frames' = <<NewFrame(fn, ProcessRegistry_pid(nextPk, nextPid))>>
    /\ registered' = Append(registered, Registration(nextPk, nextPid))
    /\ seen_pk' = <<0>>
    /\ nextPk' = nextPk + 1
    /\ nextPid' = nextPid + 1
    /\ runs' = runs + 1
    /\ UNCHANGED <<wf_stack, completed>>
    /\ UNCHANGED notRegVars

\* The process that was created starts: it is pushed on the stack and its
\* body begins.
Process_start ==
    /\ frames # <<>>
    /\ Top(frames).st = "created"
    /\ wf_stack' = ProcessStack_push(wf_stack, Top(frames).pid)
    /\ frames' = [frames EXCEPT ![Len(frames)].st = "running"]
    /\ UNCHANGED <<nextPid, runs, completed, nextPk, registered, seen_pk>>
    /\ UNCHANGED notRegVars

\* A body reads registry.current_pid (to assert it is its own pid, or for the
\* value it returns).
read_current_pid ==
    /\ frames # <<>>
    /\ Top(frames).st = "running"
    /\ Top(frames).seen # current_pid(wf_stack)
    /\ frames' = [frames EXCEPT ![Len(frames)].seen = current_pid(wf_stack)]
    /\ UNCHANGED <<wf_stack, nextPid, runs, completed, nextPk, registered, seen_pk>>
    /\ UNCHANGED notRegVars

\* A body reads registry.current_calc_node (to assert it is its own node, or
\* for the pk it returns).
read_current_calc_node ==
    /\ frames # <<>>
    /\ Top(frames).st = "running"
    /\ Top(seen_pk) # current_calc_node_pk(wf_stack)
    /\ seen_pk' = [seen_pk EXCEPT ![Len(seen_pk)] = current_calc_node_pk(wf_stack)]
    /\ UNCHANGED <<wf_stack, frames, nextPid, runs, completed, nextPk, registered>>
    /\ UNCHANGED notRegVars

\* A body calls the next process it starts and waits for it.
call_child ==
    /\ frames # <<>>
    /\ Top(frames).st = "running"
    /\ Top(frames).pc <= Len(Children(Top(frames).fn))
    /\ frames' = Append(frames, NewFrame(Children(Top(frames).fn)[Top(frames).pc],
                                         ProcessRegistry_pid(nextPk, nextPid)))
    /\ registered' = Append(registered, Registration(nextPk, nextPid))
    /\ seen_pk' = Append(seen_pk, 0)
    /\ nextPk' = nextPk + 1
    /\ nextPid' = nextPid + 1
    /\ UNCHANGED <<wf_stack, runs, completed>>
    /\ UNCHANGED notRegVars

\* A body that has made all its calls returns.
body_return ==
    /\ frames # <<>>
    /\ Top(frames).st = "running"
    /\ Top(frames).pc > Len(Children(Top(frames).fn))
    /\ frames' = [frames EXCEPT ![Len(frames)].st = "finished", ![Len(frames)].end = "success"]
    /\ nextPk' = nextPk + Returned(Top(frames).fn)
    /\ UNCHANGED <<wf_stack, nextPid, runs, completed, registered, seen_pk>>
    /\ UNCHANGED notRegVars

\* A body raises, or is cancelled.
body_raise(kind) ==
    /\ frames # <<>>
    /\ Top(frames).st = "running"
    /\ frames' = [frames EXCEPT ![Len(frames)].st = "finished", ![Len(frames)].end = kind]
    /\ UNCHANGED <<wf_stack, nextPid, runs, completed, nextPk, registered, seen_pk>>
    /\ UNCHANGED notRegVars

\* The frames once the innermost process is gone: its caller goes on after a
\* success, and ends the same way otherwise.
Unwind(fs) ==
    IF Len(fs) = 1 THEN <<>>
    ELSE IF Top(fs).end = "success"
         THEN [Front(fs) EXCEPT ![Len(fs) - 1].pc = @ + 1]
         ELSE [Front(fs) EXCEPT ![Len(fs) - 1].st = "finished", ![Len(fs) - 1].end = Top(fs).end]

\* Process_stop if a process that did not succeed stayed on the stack.
Process_stop_success_only ==
    /\ frames # <<>>
    /\ Top(frames).st = "finished"
    /\ wf_stack' = IF Top(frames).end = "success" THEN ProcessStack_pop(wf_stack) ELSE wf_stack
    /\ frames' = Unwind(frames)
    /\ completed' = IF Len(frames) = 1 THEN completed \cup {Top(frames).end} ELSE completed
    /\ seen_pk' = Front(seen_pk)
    /\ UNCHANGED <<nextPid, runs, nextPk, registered>>
    /\ UNCHANGED notRegVars

\* The process whose body ended stops, however it ended: it is popped off the
\* stack and control is back in its caller.
Process_stop ==
    /\ frames # <<>>
    /\ Top(frames).st = "finished"
    /\ wf_stack' = ProcessStack_pop(wf_stack)
    /\ frames' = Unwind(frames)
    /\ completed' = IF Len(frames) = 1 THEN completed \cup {Top(frames).end} ELSE completed
    /\ seen_pk' = Front(seen_pk)
    /\ UNCHANGED <<nextPid, runs, nextPk, registered>>
    /\ UNCHANGED notRegVars

\* ------------------------------------- the transport cannot be opened
\* The processes whose requests wait in the queue for key k.
Requests(k) == {queue[k][i] : i \in 1..Len(queue[k])}

\* The task of p once the queue has failed its waiting request.
OpenFailed(p) ==
    IF Done(task[p]) THEN task[p] ELSE [st |-> "exception", val |-> "TransportError"]

\* The queue if it failed only the request it was opening the transport for
\* and forgot the others.
TransportQueue_open_fails_first_only(k) ==
    /\ LoopIdle
    /\ queue[k] # <<>>
    /\ queue' = [queue EXCEPT ![k] = <<>>]
    /\ task' = [task EXCEPT ![Head(queue[k])] = OpenFailed(Head(queue[k]))]
    /\ resolutions' = [resolutions EXCEPT ![Head(queue[k])] =
            IF Done(task[Head(queue[k])]) THEN @ ELSE @ + 1]
    /\ ref' = [ref EXCEPT ![Head(queue[k])] = RefStep(@, "TransportError")]
    /\ UNCHANGED <<procVars, waitVars, executed, holder, inExecute, calcVars, persistVars,
                   commands, cancelPhase, cancelGhosts, reloadedFrom, firstTaskAfterLoad>>
    /\ UNCHANGED otherVars

\* The queue cannot open the transport for key k: every request that waits
\* for that key is failed with the error and leaves the queue.
TransportQueue_open_fails(k) ==
    /\ LoopIdle
    /\ queue[k] # <<>>
    /\ queue' = [queue EXCEPT ![k] = <<>>]
    /\ task' = [p \in Procs |-> IF p \in Requests(k) THEN OpenFailed(p) ELSE task[p]]
    /\ resolutions' = [p \in Procs |->
            IF p \in Requests(k) /\ ~Done(task[p]) THEN resolutions[p] + 1 ELSE resolutions[p]]
    /\ ref' = [p \in Procs |->
            IF p \in Requests(k) /\ ~Done(task[p]) THEN RefStep(ref[p], "TransportError")
            ELSE ref[p]]
    /\ UNCHANGED <<procVars, waitVars, executed, holder, inExecute, calcVars, persistVars,
                   commands, cancelPhase, cancelGhosts, reloadedFrom, firstTaskAfterLoad>>
    /\ UNCHANGED otherVars

\* ------------------------------------------------------- specifications
Next ==
    \/ \E p \in Procs : Start(p)
    \/ \E p \in Procs : run(p)
    \/ \E p \in Procs : action_command(p)
    \/ \E k \in Keys : TransportQueue_grant(k)
    \/ \E p \in Procs : SubmitJob_execute(p)
    \/ \E p \in Procs : UpdateSchedulerState_execute(p)
    \/ \E p \in Procs : RetrieveJob_execute(p)
    \/ \E p \in Procs : action_command_resume(p)
    \/ \E p \in Procs : cancel(p)
    \/ \E p \in Procs : retrieved(p)
    \/ \E p \in Procs : retrieved_return(p)

Spec == Init /\ [][Next]_vars

NextReload ==
    \/ Next
    \/ \E p \in Procs : Checkpoint(p)
    \/ CrashReload

SpecReload == InitOne /\ [][NextReload]_vars

\* The recovered process: ContinueJobCalculation.run in the place of
\* JobProcess.run.
NextContinue ==
    \/ \E p \in Procs : Start(p)
    \/ \E p \in Procs : ContinueJobCalculation_run(p)
    \/ \E p \in Procs : action_command(p)
    \/ \E k \in Keys : TransportQueue_grant(k)
    \/ \E p \in Procs : SubmitJob_execute(p)
    \/ \E p \in Procs : UpdateSchedulerState_execute(p)
    \/ \E p \in Procs : RetrieveJob_execute(p)
    \/ \E p \in Procs : action_command_resume(p)
    \/ \E p \in Procs : cancel(p)
    \/ \E p \in Procs : retrieved(p)
    \/ \E p \in Procs : retrieved_return(p)

SpecContinue == InitContinue /\ [][NextContinue]_vars

NextOpenFail ==
    \/ Next
    \/ \E k \in Keys : TransportQueue_open_fails(k)

SpecOpenFail == Init /\ [][NextOpenFail]_vars

\* execute(transport) returns or raises.
execute_returns(p) ==
    \/ SubmitJob_execute(p)
    \/ UpdateSchedulerState_execute(p)
    \/ RetrieveJob_execute(p)

\* The processes run and nobody cancels them.
NextFair ==
    \/ \E p \in Procs : Start(p)
    \/ \E p \in Procs : run(p)
    \/ \E p \in Procs : action_command(p)
    \/ \E k \in Keys : TransportQueue_grant(k)
    \/ \E p \in Procs : execute_returns(p)
    \/ \E p \in Procs : action_command_resume(p)
    \/ \E p \in Procs : retrieved(p)
    \/ \E p \in Procs : retrieved_return(p)

\* The loop runs every callback that is scheduled: a coroutine that can go on
\* does, execute returns, and the queue's callback for a key that has
\* requests is run however often the loop is busy with other keys.
Fairness ==
    /\ \A p \in Procs : WF_vars(action_command(p))
    /\ \A p \in Procs : WF_vars(action_command_resume(p))
    /\ \A p \in Procs : WF_vars(execute_returns(p))
    /\ \A k \in Keys : SF_vars(TransportQueue_grant(k))

SpecFair == Init /\ [][NextFair]_vars /\ Fairness

\* One process runs, it may be cancelled at any moment, and the loop runs every
\* callback that is scheduled.
SpecCancelFair == InitOne /\ [][Next]_vars /\ Fairness

\* No job process has been created: the registry test alone.
InitRegistry == pstate = [p \in Procs |-> NotCreated] /\ InitRest

NextRegistry ==
    \/ \E fn \in TopLevel : run_top(fn)
    \/ Process_start
    \/ read_current_pid
    \/ read_current_calc_node
    \/ call_child
    \/ body_return
    \/ \E kind \in Raises : body_raise(kind)
    \/ Process_stop

SpecRegistry == InitRegistry /\ [][NextRegistry]_vars


\* ================================================================= claims
InQueue(p) == \E k \in Keys : \E i \in 1..Len(queue[k]) : queue[k][i] = p

Last(s) == s[Len(s)]

\* The order in which a run enters its waiting commands and then resumes
\* running: submit, then update_scheduler one or more times, then retrieve,
\* then the retrieved continuation.
CommandSteps ==
    { <<SUBMIT_COMMAND, UPDATE_SCHEDULER_COMMAND>>,
      <<UPDATE_SCHEDULER_COMMAND, UPDATE_SCHEDULER_COMMAND>>,
      <<UPDATE_SCHEDULER_COMMAND, RETRIEVE_COMMAND>>,
      <<RETRIEVE_COMMAND, "retrieved">> }

InOrder(s) ==
    /\ Len(s) > 0 => s[1] = SUBMIT_COMMAND
    /\ \A i \in 2..Len(s) : <<s[i - 1], s[i]>> \in CommandSteps

\* C1: in every run of a JobProcess the waiting commands are entered in the
\* order submit, update_scheduler (one or more times), retrieve, and then the
\* process runs its retrieved continuation: the commands entered so far are
\* always a prefix of that order starting with submit, the command of a
\* waiting process is the last one entered, and a process that runs retrieved
\* or has finished has entered all of them.
C1_CommandOrder ==
    \A p \in Procs :
        /\ InOrder(commands[p])
        /\ pstate[p] = "WAITING" => Len(commands[p]) > 0 /\ Last(commands[p]) = data[p]
        /\ (pstate[p] = "FINISHED" \/ (pstate[p] = "RUNNING" /\ run_fn[p] = "retrieved"))
            => /\ Len(commands[p]) >= 4
               /\ Last(commands[p]) = "retrieved"

C1_Witness ==
    \E p \in Procs : pstate[p] = "FINISHED" /\ Len(commands[p]) = 5

\* C2: no two tasks with the same authinfo are inside execute(transport) at
\* the same time.
C2_OneExecutePerKey ==
    \A p \in inExecute : \A q \in inExecute : p # q => authinfo[p] # authinfo[q]

C2_Witness ==
    \E p \in inExecute : \E q \in Procs :
        q # p /\ authinfo[q] = authinfo[p] /\ task[q].st = "pending" /\ InQueue(q)

C4_Original ==
    \A p \in Procs :
        cancelPhase[p] \in {"no_task", "task_pending", "task_done"}
            => \/ pstate[p] = "CANCELLED"
               \/ pstate[p] = "WAITING" /\ data[p] = SUBMIT_COMMAND

\* The cases in which the cancel does take effect: once cancel() has been
\* called on a process that is waiting with the submit command and whose
\* SubmitJob task has not resolved (it does not exist yet, or it is
\* unresolved), the process is CANCELLED, or it still waits with the submit
\* command for its coroutine to see the cancelled task; the task that was
\* cancelled stays cancelled and its execute is never invoked.
CancelBeforeResolved ==
    \A p \in Procs :
        /\ cancelPhase[p] = "no_task" => pstate[p] = "CANCELLED"
        /\ cancelPhase[p] = "task_pending" =>
            /\ task[p].st = "cancelled" /\ ~executed[p]
            /\ \/ pstate[p] = "CANCELLED" /\ ac[p] = "none"
               \/ pstate[p] = "WAITING" /\ data[p] = SUBMIT_COMMAND /\ ac[p] = "awaiting"

CancelBeforeResolved_Witness ==
    \E p \in Procs : cancelPhase[p] = "task_pending" /\ pstate[p] = "CANCELLED" /\ ~InQueue(p)

\* C5 as stated: the request of a task that is cancelled (which only happens
\* while it waits in the queue) is withdrawn from the queue, and its execute
\* is never invoked.
C5_Original ==
    \A p \in Procs : task[p].st = "cancelled" => ~InQueue(p) /\ ~executed[p]

\* C5, amended: a task that is cancelled while it waits in the queue is
\* resolved as cancelled, once, and its execute is never invoked, although
\* its request stays in the queue until the queue calls it.
C5_CancelledNeverExecutes ==
    \A p \in Procs :
        task[p].st = "cancelled" => ~executed[p] /\ p \notin inExecute /\ resolutions[p] = 1

C5_Witness ==
    \E p \in Procs :
        task[p].st = "cancelled" /\ ~InQueue(p) /\ pstate[p] = "CANCELLED" /\ ac[p] = "none"

C7_ResumeAtPoll ==
    \A p \in Procs :
        /\ reloadedFrom[p] = UPDATE_SCHEDULER_COMMAND /\ firstTaskAfterLoad[p] # "none"
            => firstTaskAfterLoad[p] = UPDATE_SCHEDULER_COMMAND
        /\ reloadedFrom[p] = UPDATE_SCHEDULER_COMMAND /\ firstTaskAfterLoad[p] = "none"
            => /\ data[p] = UPDATE_SCHEDULER_COMMAND
               /\ pstate[p] = "WAITING" \/ (pstate[p] = "CANCELLED" /\ cancelPhase[p] = "later")
        /\ pstate[p] \in Terminal /\ cancelPhase[p] = "none" /\ ref[p] # "undefined"
            => pstate[p] = ref[p]

C7_Witness ==
    \E p \in Procs :
        /\ reloadedFrom[p] = UPDATE_SCHEDULER_COMMAND
        /\ firstTaskAfterLoad[p] = UPDATE_SCHEDULER_COMMAND
        /\ pstate[p] = "FAILED" /\ ref[p] = "FAILED" /\ failure[p] = "ParsingError"
        /\ cancelPhase[p] = "none"

\* C8: the job of a process is submitted at most once.
C8_SubmitAtMostOnce == \A p \in Procs : submitCount[p] <= 1

\* The processes that have started, outermost first.
Started == SelectSeq(frames, LAMBDA f : f.st # "created")

\* C9: whenever no top-level run is in progress (before the first run, and
\* after any run has completed by success, failure or cancellation, nested
\* processes included) the registry's process stack is empty.
C9_StackEmptyBetweenRuns == frames = <<>> => wf_stack = <<>>

\* A top-level run of registry_tester, which starts nested processes, was
\* cancelled or failed, a run has succeeded, and no run is in progress.
C9_Witness ==
    /\ frames = <<>>
    /\ wf_stack = <<>>
    /\ "success" \in completed
    /\ completed \cap Raises # {}
    /\ nextPid > 4

\* C10: the stack holds exactly the started processes, callers below the
\* processes they started: registry.current_pid is the pid of the process
\* whose body is executing, every value a body read from it is its own pid,
\* and once a child has stopped the top of the stack is its caller again.
C10_CurrentIsInnermost ==
    /\ Len(wf_stack) = Len(Started)
    /\ \A i \in 1..Len(Started) : wf_stack[i] = Started[i].pid
    /\ \A i \in 1..Len(frames) : frames[i].seen \in {0, frames[i].pid}
    /\ frames # <<>> /\ Top(frames).st = "running" => current_pid(wf_stack) = Top(frames).pid

\* registry_tester is executing again after both processes it started have
\* stopped, and reads its own pid; the second of them ran a nested process.
C10_Witness ==
    /\ Len(frames) = 1
    /\ frames[1].fn = "registry_tester"
    /\ frames[1].pc = 3
    /\ frames[1].st = "running"
    /\ frames[1].seen = frames[1].pid
    /\ wf_stack = <<frames[1].pid>>

\* C11: the pids the registry has handed out are all different, each is the
\* pk of the process's calc node, and the pid and the node pk a body read
\* from the registry are the pid of its own process (the future's pid).
C11_PidUniqueAndNodePk ==
    /\ \A i \in 1..Len(registered) : \A j \in 1..Len(registered) :
            i # j => registered[i].pid # registered[j].pid
    /\ \A i \in 1..Len(registered) : registered[i].pid = registered[i].pk
    /\ \A i \in 1..Len(frames) :
            /\ frames[i].seen \in {0, frames[i].pid}
            /\ seen_pk[i] \in {0, frames[i].pid}

\* A process registered after other processes had stored the nodes they
\* returned has read its own pid and its own node's pk from the registry.
C11_Witness ==
    /\ Len(registered) > 2
    /\ nextPk > nextPid
    /\ frames # <<>>
    /\ Top(frames).seen = Top(frames).pid
    /\ Top(seen_pk) = Top(frames).pid
    /\ Top(frames).pid > Len(registered)

\* The poll of a waiting process found no entry for its job (only then does
\* the record get the scheduler state DONE) and the process has not moved on.
AbsentSeen(p) ==
    /\ pstate[p] = "WAITING"
    /\ data[p] = UPDATE_SCHEDULER_COMMAND
    /\ schedulerState[p] = "DONE"

\* C12: when the poll finds no entry for the job, the task resolves with
\* job_done and the record is COMPUTED, and the next step of the process is
\* to wait with the retrieve command: it does not poll again and does not
\* become FAILED.
C12_AbsentIsDone ==
    /\ [](\A p \in Procs : AbsentSeen(p) =>
            task[p] = [st |-> "result", val |-> "job_done"] /\ calcState[p] = "COMPUTED")
    /\ [][\A p \in Procs :
            AbsentSeen(p) /\ (pstate'[p] # pstate[p] \/ commands'[p] # commands[p])
                => /\ pstate'[p] = "WAITING"
                   /\ data'[p] = RETRIEVE_COMMAND
                   /\ Last(commands'[p]) = RETRIEVE_COMMAND]_vars

\* A process waits with the retrieve command after a poll that found no entry
\* for its job, and nothing has failed.
C12_Witness ==
    \E p \in Procs :
        /\ pstate[p] = "WAITING" /\ data[p] = RETRIEVE_COMMAND
        /\ schedulerState[p] = "DONE"
        /\ failure[p] = "none"
        /\ commands[p] = <<SUBMIT_COMMAND, UPDATE_SCHEDULER_COMMAND, RETRIEVE_COMMAND>>

C17_NoTaskAfterExit ==
    \A p \in Procs :
        task[p].st = "pending" \/ p \in inExecute => pstate[p] = "WAITING"


\* C18: a process that has an output attached is FINISHED; no process that is
\* RUNNING, FAILED or CANCELLED has one.
C18_OutputsOnlyWhenFinished ==
    \A p \in Procs : outputs[p] => pstate[p] = "FINISHED"

\* C19: a cancel() accepted while the Waiting state holds a task has cancelled
\* that task, and the process is CANCELLED once its coroutine has seen the
\* cancelled task; a cancel() while the Waiting state holds no task makes the
\* process CANCELLED at once.
C19_CancelTakesEffect ==
    \A p \in Procs :
        /\ _cancelling_future[p] = "pending" => task[p].st = "cancelled"
        /\ task[p].st = "cancelled" => pstate[p] \in {"WAITING", "CANCELLED"}
        /\ cancelPhase[p] = "no_task" => pstate[p] = "CANCELLED"

\* C20: the step in which ContinueJobCalculation.run leaves the RUNNING state
\* resumes at the sub-step of the record's state: from NEW the full run
\* (record to TOSUBMIT, wait with submit); from WITHSCHEDULER the poll, with
\* no new submission; from COMPUTED or RETRIEVING the retrieve that follows
\* the poll; from PARSING the parsing, whose outcome is the outputs or a
\* parsing failure; and only a record that is NEW or was about to be
\* submitted waits with the submit command.
C20_ResumeAtRecordedStep ==
    [][\A p \in Procs :
        pstate[p] = "RUNNING" /\ run_fn[p] = "run" /\ pstate'[p] # "RUNNING"
            => /\ calcState[p] = "NEW"
                    => /\ pstate'[p] = "WAITING" /\ data'[p] = SUBMIT_COMMAND
                       /\ calcState'[p] = "TOSUBMIT"
               /\ calcState[p] = "WITHSCHEDULER"
                    => /\ pstate'[p] = "WAITING" /\ data'[p] = UPDATE_SCHEDULER_COMMAND
                       /\ submitCount'[p] = submitCount[p]
               /\ calcState[p] \in {"COMPUTED", "RETRIEVING"}
                    => pstate'[p] = "WAITING" /\ data'[p] = RETRIEVE_COMMAND
               /\ calcState[p] = "PARSING"
                    => failure'[p] \in {"none", "ParsingError"}
               /\ calcState[p] \notin {"NEW", "TOSUBMIT", "SUBMITTING"}
                    => ~(pstate'[p] = "WAITING" /\ data'[p] = SUBMIT_COMMAND)]_vars

\* C21: a SumWorkChain (outline [sum]) that has run its step has the output
\* sum = a + b attached and no other output, and once its outline is done it
\* is FINISHED with that output; with a = 4 and b = 5 the output is 9.
C21_SumWorkChain ==
    wc_cls = "SumWorkChain" =>
        /\ wc_step > 1 =>
            /\ wc_outputs = [NoOutputs EXCEPT !.sum = {wc_inputs.a + wc_inputs.b}]
            /\ wc_inputs.a = 4 /\ wc_inputs.b = 5 => wc_outputs.sum = {9}
        /\ wc_step > 1 => wc_state \in {"RUNNING", "FINISHED"}
        /\ wc_state = "FINISHED" => wc_step = 2

\* The SumWorkChain with inputs 4 and 5 has finished with the output 9.
C21_Witness ==
    /\ wc_cls = "SumWorkChain" /\ wc_inputs.a = 4 /\ wc_inputs.b = 5
    /\ wc_state = "FINISHED" /\ wc_outputs.sum = {9}

\* C22: a call of submit() on a calculation with no input structure raises
\* ValidationError and submits nothing; a call on a calculation with a
\* structure attached raises nothing and submits it, also when an earlier call
\* on the same calculation raised; so a submitted calculation has a structure.
C22_SubmitValidates ==
    /\ [](submitted => instructures > 0)
    /\ [][submit_calls' # submit_calls =>
            IF instructures = 0
            THEN raised' = "ValidationError" /\ ~submitted' /\ ~submitted
            ELSE raised' = "none" /\ submitted']_vars

\* The run of the test: a first submit() raised, a structure was attached,
\* and the second submit() succeeded.
C22_Witness ==
    submit_calls = 2 /\ submitted /\ raised = "none" /\ instructures = 1

\* C23: is_dbenv_loaded() is True exactly when a call of load_dbenv has
\* loaded the database environment, and while none has, get_current_profile()
\* is None; so after a call of load_dbenv that raised, both are as before.
C23_LoadedIffLoaded ==
    /\ is_dbenv_loaded <=> dbenv_loaded
    /\ ~dbenv_loaded => get_current_profile = "none"

\* C28: load_dbenv takes effect at most once: a call made when
\* is_dbenv_loaded() is True raises InvalidOperation and changes no setting
\* and loads neither a profile nor a backend, so in any sequence of calls
\* load_profile and a backend's load_dbenv are each called at most once.
C28_LoadOnce ==
    /\ [](profile_loads <= 1 /\ backend_loads <= 1)
    /\ [][load_calls' # load_calls /\ is_dbenv_loaded =>
            /\ load_raised' = "InvalidOperation"
            /\ UNCHANGED <<LOAD_DBENV_CALLED, AIIDADB_PROFILE, BACKEND, profile_loads,
                           backend_loads, dbenv_loaded>>]_vars

\* After a call that loaded the environment, two more calls were refused.
C28_Witness ==
    /\ load_calls = 3 /\ load_raised = "InvalidOperation"
    /\ dbenv_loaded /\ profile_loads = 1 /\ backend_loads = 1

\* C24: a restart loads every live process into a Waiting state with the
\* saved command, no task, no cancelling future and action_command scheduled;
\* until that action_command has run the loaded state holds no task and
\* nothing is executed for it, and the first task created after the load is
\* the one of the saved command, whichever command that is.
C24_ReloadRearms ==
    /\ [](\A p \in Procs :
            reloadedFrom[p] # "none" =>
                /\ firstTaskAfterLoad[p] # "none" => firstTaskAfterLoad[p] = reloadedFrom[p]
                /\ firstTaskAfterLoad[p] = "none" =>
                    /\ ~_task[p] /\ task[p] = NoTask
                    /\ ~executed[p] /\ p \notin inExecute
                /\ firstTaskAfterLoad[p] = "none" /\ pstate[p] = "WAITING" =>
                    /\ ac[p] = "scheduled" /\ data[p] = reloadedFrom[p]
                    /\ _cancelling_future[p] = "none")
    /\ [][crashes' # crashes =>
            \A p \in Procs :
                Live(p) => /\ pstate'[p] = "WAITING" /\ data'[p] = checkpoint[p]
                           /\ ac'[p] = "scheduled" /\ ~_task'[p]
                           /\ _cancelling_future'[p] = "none"
                           /\ task'[p] = NoTask]_vars

\* A process loaded with the retrieve command has had a new RetrieveJob task
\* created and executed.
C24_Witness ==
    \E p \in Procs :
        /\ reloadedFrom[p] = RETRIEVE_COMMAND
        /\ firstTaskAfterLoad[p] = RETRIEVE_COMMAND
        /\ executed[p] /\ task[p].st = "result"

\* C25: when the coroutine of a process waiting with update_scheduler sees
\* its task's result, a job that is not done makes the process wait with
\* update_scheduler again, and a job that is done makes it wait with retrieve,
\* the record being COMPUTED already; a poll task that has resolved with
\* job_done has set the record to COMPUTED, a process that waits with retrieve
\* has a COMPUTED record, and the record is COMPUTED only after a poll in which
\* the scheduler reported the job DONE or did not list it.
C25_PollThenRetrieve ==
    /\ [](\A p \in Procs :
            /\ data[p] = UPDATE_SCHEDULER_COMMAND /\ task[p] = [st |-> "result", val |-> "job_done"]
                => calcState[p] = "COMPUTED"
            /\ data[p] = UPDATE_SCHEDULER_COMMAND /\ task[p] = [st |-> "result", val |-> "job_not_done"]
                => calcState[p] # "COMPUTED"
            /\ pstate[p] = "WAITING" /\ data[p] = RETRIEVE_COMMAND => calcState[p] = "COMPUTED"
            /\ calcState[p] = "COMPUTED" => ref[p] \notin {"none", SUBMIT_COMMAND, UPDATE_SCHEDULER_COMMAND})
    /\ [][\A p \in Procs :
            /\ pstate[p] = "WAITING" /\ data[p] = UPDATE_SCHEDULER_COMMAND
            /\ ac[p] = "awaiting" /\ ac'[p] # "awaiting" /\ task[p].st = "result"
            => /\ pstate'[p] = "WAITING"
               /\ commands'[p] = Append(commands[p], data'[p])
               /\ data'[p] = IF task[p].val = "job_done"
                             THEN RETRIEVE_COMMAND ELSE UPDATE_SCHEDULER_COMMAND]_vars

\* A process has polled twice, the job not done and then done, and waits
\* with retrieve, its record COMPUTED.
C25_Witness ==
    \E p \in Procs :
        /\ commands[p] = <<SUBMIT_COMMAND, UPDATE_SCHEDULER_COMMAND,
                           UPDATE_SCHEDULER_COMMAND, RETRIEVE_COMMAND>>
        /\ pstate[p] = "WAITING" /\ calcState[p] = "COMPUTED"

\* C26: a poll that found the job in a state other than the one last
\* recorded, the first poll after submission included, has recorded that
\* state: once a poll task has resolved with the job found and not done, the
\* record's snapshot holds a scheduler state of a job that is not done.
C26_SnapshotUpdated ==
    \A p \in Procs :
        data[p] = UPDATE_SCHEDULER_COMMAND /\ task[p] = [st |-> "result", val |-> "job_not_done"]
            => lastJobinfo[p] \in JobStates \ {"DONE"}

\* C27: get_detailed_jobinfo raising NotImplementedError fails nothing: no
\* task and no process carries that exception, and where the placeholder is
\* stored as the detailed job info the record is COMPUTED (or beyond), the
\* poll task has resolved with job_done, and the process waits in the poll
\* step for its coroutine (unless it was cancelled) or has gone on to retrieve.
C27_PlaceholderNotFailure ==
    \A p \in Procs :
        /\ task[p].val # "NotImplementedError" /\ failure[p] # "NotImplementedError"
        /\ detailedJobInfo[p] = "placeholder" =>
            /\ calcState[p] \in {"COMPUTED", "FINISHED", "PARSINGFAILED"}
            /\ data[p] \in {UPDATE_SCHEDULER_COMMAND, RETRIEVE_COMMAND}
            /\ data[p] = UPDATE_SCHEDULER_COMMAND =>
                /\ task[p] = [st |-> "result", val |-> "job_done"]
                /\ pstate[p] \in {"WAITING", "CANCELLED"}

\* The placeholder was stored and the process went on to wait with retrieve.
C27_Witness ==
    \E p \in Procs :
        /\ detailedJobInfo[p] = "placeholder" /\ calcState[p] = "COMPUTED"
        /\ pstate[p] = "WAITING" /\ data[p] = RETRIEVE_COMMAND /\ cancelPhase[p] = "none"

\* C29: nothing is done on behalf of a process that has been cancelled: in no
\* step is a task created for it or an execute started for it, its record is
\* not changed, and it stays CANCELLED.
C29_NothingAfterCancel ==
    [][\A p \in Procs :
        pstate[p] = "CANCELLED" =>
            /\ pstate'[p] = "CANCELLED"
            /\ task[p].st # "pending" => task'[p].st # "pending"
            /\ p \notin inExecute => p \notin inExecute'
            /\ calcState'[p] = calcState[p] /\ submitCount'[p] = submitCount[p]]_vars

\* C30: the future returned by cancel() is True only if the process is
\* CANCELLED, and it is not False when the process was cancelled by that
\* cancel, that is, when its coroutine saw the cancelled task and made the
\* process CANCELLED.
C30_CancellingFuture ==
    \A p \in Procs :
        /\ _cancelling_future[p] = "true" => pstate[p] = "CANCELLED"
        /\ _cancelling_future[p] = "false" =>
                ~(pstate[p] = "CANCELLED" /\ task[p].st = "cancelled")

\* C31: a future that cancel() has returned while a task was active and that
\* is not resolved yet is eventually resolved, however the Waiting state ends.
C31_FutureResolved ==
    \A p \in Procs : unresolved[p] > 0 ~> unresolved[p] = 0

C31_Witness ==
    \E p \in Procs :
        /\ unresolved[p] = 0 /\ task_cancels[p] = 1
        /\ _cancelling_future[p] = "false" /\ pstate[p] = "FAILED"

\* The requests of process p that wait in the transport queue.
RequestsOf(p) ==
    UNION {{<<k, i>> : i \in {j \in 1..Len(queue[k]) : queue[k][j] = p}} : k \in Keys}

\* C32: a process has at most one unresolved transport task.  An unresolved
\* task is the one the Waiting state refers to, whose action_command is
\* suspended at it; the reference is set only while action_command is suspended;
\* a live Waiting state has exactly one action_command, scheduled or suspended;
\* and when an action_command is scheduled, so that a task is about to be
\* created, the task before it has resolved and waits for no transport.
C32_OneTask ==
    \A p \in Procs :
        /\ Cardinality(RequestsOf(p)) <= 1
        /\ ~(p \in inExecute /\ InQueue(p))
        /\ task[p].st = "pending" => _task[p] /\ ac[p] = "awaiting"
        /\ _task[p] <=> ac[p] = "awaiting"
        /\ pstate[p] = "WAITING" => ac[p] \in {"scheduled", "awaiting"}
        /\ ac[p] = "scheduled" => task[p].st # "pending" /\ p \notin inExecute

\* A reloaded process is at its poll task, after the submit task resolved.
C32_Witness ==
    \E p \in Procs :
        /\ reloadedFrom[p] # "none" /\ data[p] = UPDATE_SCHEDULER_COMMAND
        /\ task[p].st = "pending" /\ _task[p] /\ Cardinality(RequestsOf(p)) = 1
        /\ commands[p] # <<>>

\* C33: while a cancellation is pending, however many calls of cancel() have
\* been answered, there is one cancelling future (every call returned the
\* future of the first) and the task's cancel() has been called once.
C33_CancelIdempotent ==
    \A p \in Procs :
        cancel_calls[p] >= 1 =>
            /\ _cancelling_future[p] = "pending" /\ pstate[p] = "WAITING"
            /\ unresolved[p] = 1
            /\ task_cancels[p] = 1

\* cancel() has been called again while the first call's future was pending.
C33_Witness ==
    \E p \in Procs :
        /\ cancel_calls[p] = MaxCancels /\ _cancelling_future[p] = "pending"
        /\ unresolved[p] = 1 /\ task_cancels[p] = 1

====
